---- MODULE Spec2Model ----
(***************************************************************************)
(* Model of the RTTI image extractor (src/main.cpp): main, the extraction  *)
(* loop ImageFile::Process, the marker scanner FindHeader, the header      *)
(* parser ReadDimensions and the bitmap encoder SaveAsBMP.                  *)
(*                                                                         *)
(* The input file is a finite byte sequence read through a forward-only    *)
(* std::ifstream: a cursor (pos) and the stream's eofbit/failbit.           *)
(***************************************************************************)
EXTENDS Integers, Sequences, FiniteSets, TLC

VARIABLES
    pc,             \* position of the program: see PcValues
    input,          \* the bytes of the input file
    pos,            \* number of input bytes consumed so far
    eofbit,         \* std::ios::eofbit of the input stream
    failbit,        \* std::ios::failbit of the input stream
    header_end,     \* cursor right after the marker FindHeader matched last
    width,          \* Process: width of the record being handled
    height,         \* Process: height of the record being handled
    img_data,       \* Process: pixel buffer of the record being handled
    image_counter,  \* Process: static int image_counter
    files,          \* output files written: counter value -> bytes
    extracted,      \* history: the records that reached line 173, in order
    rejected,       \* history: the records line 168 skipped
    exit_code       \* value main returned (-1 while running)

vars == <<pc, input, pos, eofbit, failbit, header_end, width, height,
          img_data, image_counter, files, extracted, rejected, exit_code>>

-----------------------------------------------------------------------------
(* Program constants *)

\* ImageConfig::Headers[0] = "Image8"
Marker == <<73, 109, 97, 103, 101, 56>>

MaxWidth == 2000

MaxHeight == 2000

\* sizeof(bmpFileHeader) + sizeof(bmpInfoHeader): the 54 of line 120
BmpHeaderLen == 54

\* number of bytes ReadDimensions reads per field (sizeof(bytes))
DimBytes == 4

-----------------------------------------------------------------------------
(* Bounds of the model *)

\* streams are concatenations of at most MaxItems items, cut at any length
MaxItems == 2

\* encoder specification: widths 1..MaxEncWidth, heights 1..MaxEncHeight,
\* pixel patterns 0..MaxSeed
MaxEncWidth == 4

MaxEncHeight == 2

MaxSeed == 4

-----------------------------------------------------------------------------
(* Integer helpers: C semantics on 32-bit int and unsigned char *)

\* (unsigned char)(v >> (8*k)) for a 32-bit int v (arithmetic shift)
ByteOf(v, k) == (v \div (256 ^ k)) % 256

\* the four bytes that lines 122-125 / 127-134 store for an int
LE32(v) == <<ByteOf(v, 0), ByteOf(v, 1), ByteOf(v, 2), ByteOf(v, 3)>>

\* mutant of DecodeInt: the bytes combined most significant first
DecodeBigEndian(b) ==
    b[4] + b[3] * 256 + b[2] * 65536
         + (IF b[1] >= 128 THEN b[1] - 256 ELSE b[1]) * 16777216

\* line 93: bytes[0] | bytes[1] << 8 | bytes[2] << 16 | bytes[3] << 24 as int
DecodeInt(b) ==
    b[1] + b[2] * 256 + b[3] * 65536
         + (IF b[4] >= 128 THEN b[4] - 256 ELSE b[4]) * 16777216

\* C's a % b for b > 0: the remainder has the sign of a
CRem(a, b) == IF a >= 0 THEN a % b ELSE 0 - ((0 - a) % b)

Zeros(n) == [k \in 1..n |-> 0]

-----------------------------------------------------------------------------
(* std::ifstream: unformatted reads *)

\* mutant of StreamRead: a short read sets failbit but not eofbit
StreamReadNoEof(s, p, eof, fail, n) ==
    IF eof \/ fail
    THEN [ok |-> FALSE, pos |-> p, eof |-> eof, fail |-> TRUE, data |-> <<>>]
    ELSE IF Len(s) - p >= n
    THEN [ok |-> TRUE, pos |-> p + n, eof |-> FALSE, fail |-> FALSE,
          data |-> SubSeq(s, p + 1, p + n)]
    ELSE [ok |-> FALSE, pos |-> Len(s), eof |-> FALSE, fail |-> TRUE,
          data |-> SubSeq(s, p + 1, Len(s))]

\* file.read(buf, n) / file.get(ch) / file.ignore(n) on stream s with cursor p:
\* a stream that is not good() fails at the sentry and extracts nothing; a
\* read that meets the end of the stream extracts what is left.
StreamRead(s, p, eof, fail, n) ==
    IF eof \/ fail
    THEN [ok |-> FALSE, pos |-> p, eof |-> eof, fail |-> TRUE, data |-> <<>>]
    ELSE IF Len(s) - p >= n
    THEN [ok |-> TRUE, pos |-> p + n, eof |-> FALSE, fail |-> FALSE,
          data |-> SubSeq(s, p + 1, p + n)]
    ELSE [ok |-> FALSE, pos |-> Len(s), eof |-> TRUE, fail |-> TRUE,
          data |-> SubSeq(s, p + 1, Len(s))]

\* mutant of StreamIgnore: only a newline is skipped
StreamIgnoreNewline(s, p, eof, fail) ==
    IF eof \/ fail
    THEN [pos |-> p, eof |-> eof, fail |-> TRUE]
    ELSE IF p < Len(s)
    THEN [pos |-> IF s[p + 1] = 10 THEN p + 1 ELSE p,
          eof |-> FALSE, fail |-> FALSE]
    ELSE [pos |-> p, eof |-> TRUE, fail |-> FALSE]

\* file.ignore(1): like a read of one byte, but meeting the end of the
\* stream sets eofbit only
StreamIgnore(s, p, eof, fail) ==
    IF eof \/ fail
    THEN [pos |-> p, eof |-> eof, fail |-> TRUE]
    ELSE IF p < Len(s)
    THEN [pos |-> p + 1, eof |-> FALSE, fail |-> FALSE]
    ELSE [pos |-> p, eof |-> TRUE, fail |-> FALSE]

-----------------------------------------------------------------------------
(* ImageFile::FindHeader *)

\* mutant of TrimWindow: the oldest byte never dropped
TrimWindowNever(buffer) == buffer

\* lines 76 and 79: the window never holds more than the marker's length
TrimWindow(buffer) ==
    IF Len(buffer) > Len(Marker) THEN Tail(buffer) ELSE buffer

\* mutant of WindowMatches: the last byte of the marker not compared
WindowMatchesPrefix(buffer) ==
    /\ Len(buffer) >= Len(Marker) - 1
    /\ SubSeq(buffer, Len(buffer) - Len(Marker) + 2, Len(buffer))
          = SubSeq(Marker, 1, Len(Marker) - 1)

\* line 77
WindowMatches(buffer) == buffer = Marker

RECURSIVE ScanLoop(_, _, _)
\* the while loop of lines 73-80 on a good stream, from cursor p with
\* window buffer
ScanLoop(s, p, buffer) ==
    IF p >= Len(s)
    THEN [found |-> FALSE, pos |-> Len(s), eof |-> TRUE, fail |-> TRUE]
    ELSE LET window == TrimWindow(Append(buffer, s[p + 1]))
         IN  IF WindowMatches(window)
             THEN [found |-> TRUE, pos |-> p + 1, eof |-> FALSE, fail |-> FALSE]
             ELSE ScanLoop(s, p + 1, window)

\* mutant of FindHeader: the scan starts three bytes before the cursor
FindHeaderLookBack(s, p, eof, fail) ==
    IF eof \/ fail
    THEN [found |-> FALSE, pos |-> p, eof |-> eof, fail |-> TRUE]
    ELSE ScanLoop(s, IF p >= 3 THEN p - 3 ELSE 0, <<>>)

\* FindHeader(file): a fresh empty window per call
FindHeader(s, p, eof, fail) ==
    IF eof \/ fail
    THEN [found |-> FALSE, pos |-> p, eof |-> eof, fail |-> TRUE]
    ELSE ScanLoop(s, p, <<>>)

-----------------------------------------------------------------------------
(* ImageFile::ReadDimensions *)

\* the two reads of lines 88-94; ok = FALSE is the std::runtime_error
ReadDimensions(s, p, eof, fail) ==
    LET r1 == StreamRead(s, p, eof, fail, DimBytes)
        r2 == StreamRead(s, r1.pos, r1.eof, r1.fail, DimBytes)
    IN  IF ~r1.ok
        THEN [ok |-> FALSE, pos |-> r1.pos, eof |-> r1.eof, fail |-> r1.fail,
              width |-> 0, height |-> 0]
        ELSE IF ~r2.ok
        THEN [ok |-> FALSE, pos |-> r2.pos, eof |-> r2.eof, fail |-> r2.fail,
              width |-> 0, height |-> 0]
        ELSE [ok |-> TRUE, pos |-> r2.pos, eof |-> r2.eof, fail |-> r2.fail,
              width |-> DecodeInt(r1.data), height |-> DecodeInt(r2.data)]

-----------------------------------------------------------------------------
(* ImageFile::SaveAsBMP *)

\* mutant of PaddingAmount: the outer % 4 left out
PaddingNoWrap(w) == 4 - CRem(w * 3, 4)

\* line 119
PaddingAmount(w) == CRem(4 - CRem(w * 3, 4), 4)

\* line 120
FileSize(w, h) == BmpHeaderLen + (w * 3 + PaddingAmount(w)) * h

\* lines 117, 122-125
BmpFileHeader(w, h) ==
    <<66, 77>> \o LE32(FileSize(w, h)) \o <<0, 0, 0, 0>> \o <<54, 0, 0, 0>>

\* mutant of BmpInfoHeader: height stored before width
BmpInfoHeaderHeightFirst(w, h) ==
    <<40, 0, 0, 0>> \o LE32(h) \o LE32(w) \o <<1, 0, 24, 0>> \o Zeros(24)

\* lines 118, 127-134
BmpInfoHeader(w, h) ==
    <<40, 0, 0, 0>> \o LE32(w) \o LE32(h) \o <<1, 0, 24, 0>> \o Zeros(24)

\* mutant of SwapPixel: the channel swap left out
SwapPixelNone(data, w, i, j) == data

\* line 148 for pixel j of row i: std::swap of its first and third byte
SwapPixel(data, w, i, j) ==
    LET r == i * w * 3 + j * 3 + 1
        b == r + 2
    IN  [data EXCEPT ![r] = data[b], ![b] = data[r]]

RECURSIVE SwapRow(_, _, _, _)
\* the inner loop of lines 145-149 from pixel j on
SwapRow(data, w, i, j) ==
    IF j >= w THEN data ELSE SwapRow(SwapPixel(data, w, i, j), w, i, j + 1)

\* line 150: the bytes of row i
RowBytes(data, w, i) == SubSeq(data, i * w * 3 + 1, i * w * 3 + w * 3)

\* first row the loop of line 144 visits
FirstRow(h) == h - 1

\* row the loop of line 144 visits after row i
NextRow(i) == i - 1

RECURSIVE RowLoop(_, _, _, _)
\* the loop of lines 144-152 from row i on: what it writes
RowLoop(data, w, h, i) ==
    IF i < 0
    THEN <<>>
    ELSE LET swapped == SwapRow(data, w, i, 0)
         IN  RowBytes(swapped, w, i) \o Zeros(PaddingAmount(w))
                 \o RowLoop(swapped, w, h, NextRow(i))

RECURSIVE RowLoopTopDown(_, _, _, _)
\* rows written from row i upwards
RowLoopTopDown(data, w, h, i) ==
    IF i >= h
    THEN <<>>
    ELSE LET swapped == SwapRow(data, w, i, 0)
         IN  RowBytes(swapped, w, i) \o Zeros(PaddingAmount(w))
                 \o RowLoopTopDown(swapped, w, h, i + 1)

\* mutant of SaveAsBMP: the rows written top row first
SaveAsBMPTopDown(data, w, h) ==
    BmpFileHeader(w, h) \o BmpInfoHeader(w, h) \o RowLoopTopDown(data, w, h, 0)

\* the bytes SaveAsBMP writes once the output file is open
SaveAsBMP(data, w, h) ==
    BmpFileHeader(w, h) \o BmpInfoHeader(w, h) \o RowLoop(data, w, h, FirstRow(h))

-----------------------------------------------------------------------------
(* Input streams of the model *)

\* a record header: marker, one delimiter byte, width, height
Hdr(w, h) == Marker \o <<10>> \o LE32(w) \o LE32(h)

Rec(w, h, pixels) == Hdr(w, h) \o pixels

\* the last two items put a marker, and the well-formed record it starts,
\* across the end of a record's pixel payload
Items ==
    { Marker,
      <<7>>,
      Hdr(2001, 1),
      Hdr(1, 2001),
      Hdr(0, 1),
      Hdr(1, 0),
      Hdr(-1, 1),
      Hdr(-1, -1),
      Rec(1, 1, <<10, 20, 30>>),
      Rec(2, 1, <<10, 20, 30, 40, 50, 60>>),
      Rec(1, 2, <<10, 20, 30, 40, 50, 60>>),
      Rec(2, 1, Marker),
      Rec(1, 1, SubSeq(Marker, 1, 3)),
      SubSeq(Rec(1, 1, <<10, 20, 30>>), 4, 18) }

RECURSIVE Concats(_)
\* the concatenations of at most n items
Concats(n) ==
    IF n = 0 THEN {<<>>}
    ELSE LET shorter == Concats(n - 1)
         IN  shorter \cup {s \o it : s \in shorter, it \in Items}

Prefixes(s) == {SubSeq(s, 1, n) : n \in 0..Len(s)}

Streams == UNION {Prefixes(s) : s \in Concats(MaxItems)}

-----------------------------------------------------------------------------
(* The program *)

PcValues ==
    {"main", "Process", "FindHeader", "Ignore", "ReadDimensions", "Check",
     "ReadPixels", "Save", "Done", "Usage", "NoInput", "Abort"}

Init ==
    /\ pc = "main"
    /\ input \in Streams
    /\ pos = 0
    /\ eofbit = FALSE
    /\ failbit = FALSE
    /\ header_end = 0
    /\ width = 0
    /\ height = 0
    /\ img_data = <<>>
    /\ image_counter = 0
    /\ files = <<>>
    /\ extracted = <<>>
    /\ rejected = {}
    /\ exit_code = -1

\* main, lines 58-64: the argument count
Main ==
    /\ pc = "main"
    /\ \E argc \in 1..3 :
          IF argc # 2
          THEN pc' = "Usage" /\ exit_code' = 1
          ELSE pc' = "Process" /\ exit_code' = exit_code
    /\ UNCHANGED <<input, pos, eofbit, failbit, header_end, width, height,
                   img_data, image_counter, files, extracted, rejected>>

\* mutant of OpenInput: an input file that cannot be opened is an error exit
OpenInputReportsFailure ==
    /\ pc = "Process"
    /\ \E opened \in BOOLEAN :
          IF opened
          THEN pc' = "FindHeader" /\ exit_code' = exit_code
          ELSE pc' = "NoInput" /\ exit_code' = 1
    /\ UNCHANGED <<input, pos, eofbit, failbit, header_end, width, height,
                   img_data, image_counter, files, extracted, rejected>>

\* Process, lines 160-161: opening the input file
OpenInput ==
    /\ pc = "Process"
    /\ \E opened \in BOOLEAN :
          IF opened
          THEN pc' = "FindHeader" /\ exit_code' = exit_code
          ELSE pc' = "NoInput" /\ exit_code' = 0
    /\ UNCHANGED <<input, pos, eofbit, failbit, header_end, width, height,
                   img_data, image_counter, files, extracted, rejected>>

\* Process, line 164: while (FindHeader(file)); on failure Process returns
\* and main returns 0
CallFindHeader ==
    /\ pc = "FindHeader"
    /\ LET r == FindHeader(input, pos, eofbit, failbit)
       IN  /\ pos' = r.pos
           /\ eofbit' = r.eof
           /\ failbit' = r.fail
           /\ IF r.found
              THEN pc' = "Ignore" /\ header_end' = r.pos /\ exit_code' = exit_code
              ELSE pc' = "Done" /\ header_end' = header_end /\ exit_code' = 0
    /\ UNCHANGED <<input, width, height, img_data, image_counter, files,
                   extracted, rejected>>

\* Process, line 165: file.ignore(1)
Ignore ==
    /\ pc = "Ignore"
    /\ LET r == StreamIgnore(input, pos, eofbit, failbit)
       IN  /\ pos' = r.pos
           /\ eofbit' = r.eof
           /\ failbit' = r.fail
    /\ pc' = "ReadDimensions"
    /\ UNCHANGED <<input, header_end, width, height, img_data, image_counter,
                   files, extracted, rejected, exit_code>>

\* Process, lines 167 and 175-177: ReadDimensions, its exception caught
CallReadDimensions ==
    /\ pc = "ReadDimensions"
    /\ LET r == ReadDimensions(input, pos, eofbit, failbit)
       IN  /\ pos' = r.pos
           /\ eofbit' = r.eof
           /\ failbit' = r.fail
           /\ width' = r.width
           /\ height' = r.height
           /\ pc' = IF r.ok THEN "Check" ELSE "FindHeader"
    /\ UNCHANGED <<input, header_end, img_data, image_counter, files,
                   extracted, rejected, exit_code>>

\* Process, line 168: the condition under which the record is skipped
DimensionsRejected(w, h) == w > MaxWidth \/ h > MaxHeight

\* mutant of ResumeAfterReject: the nominal pixel bytes skipped as well
ResumeSkipsPayload(p, w, h) == p + w * h * 3

\* mutant of ResumeAfterReject: the cursor put back to the end of the marker
ResumeRewinds(p, w, h) == p - 8

\* Process, line 168: where the cursor is when scanning resumes
ResumeAfterReject(p, w, h) == p

\* Process, line 168
CheckDimensions ==
    /\ pc = "Check"
    /\ IF DimensionsRejected(width, height)
       THEN /\ pc' = "FindHeader"
            /\ pos' = ResumeAfterReject(pos, width, height)
            /\ rejected' = rejected \cup
                  {[marker |-> header_end, resume |-> pos']}
       ELSE /\ pc' = "ReadPixels"
            /\ pos' = pos
            /\ rejected' = rejected
    /\ UNCHANGED <<input, eofbit, failbit, header_end, width, height, img_data,
                   image_counter, files, extracted, exit_code>>

\* line 170: std::vector<unsigned char>(width * height * 3). A negative int
\* converts to a size_t above max_size(), and the constructor throws
\* std::length_error, which is no std::runtime_error: nothing catches it.
AllocationThrows(n) == n < 0

\* mutant of PixelReadOk: the result of the pixel read not looked at
PixelReadUnchecked(r) == TRUE

\* line 171: whether the pixel read makes Process go on to line 173
PixelReadOk(r) == r.ok

\* Process, lines 170-171: allocate the pixel buffer and read it
ReadPixels ==
    /\ pc = "ReadPixels"
    /\ LET n == width * height * 3
       IN  IF AllocationThrows(n)
           THEN /\ pc' = "Abort"
                /\ UNCHANGED <<pos, eofbit, failbit, img_data>>
           ELSE LET r == StreamRead(input, pos, eofbit, failbit, n)
                IN  /\ pos' = r.pos
                    /\ eofbit' = r.eof
                    /\ failbit' = r.fail
                    /\ IF PixelReadOk(r)
                       THEN pc' = "Save" /\ img_data' = r.data
                       ELSE pc' = "FindHeader" /\ img_data' = <<>>
    /\ UNCHANGED <<input, header_end, width, height, image_counter, files,
                   extracted, rejected, exit_code>>

\* mutant of NextCounter: the increment left out
CounterNotIncremented(c) == c

\* line 173: ++image_counter
NextCounter(c) == c + 1

\* mutant of AfterSave: a file that cannot be opened ends the run
AfterSaveStopsOnFailure(opened) == IF opened THEN "FindHeader" ELSE "Done"

\* lines 107-111: where Process goes on after SaveAsBMP returned, whether or
\* not the output file could be opened
AfterSave(opened) == "FindHeader"

\* Process, lines 173-174: count the record and write its file
Save ==
    /\ pc = "Save"
    /\ image_counter' = NextCounter(image_counter)
    /\ extracted' = Append(extracted,
          [off |-> pos - Len(img_data), width |-> width, height |-> height])
    /\ \E opened \in BOOLEAN :
          /\ files' = IF opened
                      THEN (image_counter' :> SaveAsBMP(img_data, width, height)) @@ files
                      ELSE files
          /\ pc' = AfterSave(opened)
    /\ img_data' = <<>>
    /\ UNCHANGED <<input, pos, eofbit, failbit, header_end, width, height,
                   rejected, exit_code>>

Next ==
    \/ Main
    \/ OpenInput
    \/ CallFindHeader
    \/ Ignore
    \/ CallReadDimensions
    \/ CheckDimensions
    \/ ReadPixels
    \/ Save

Spec == Init /\ [][Next]_vars

\* the program is sequential and always takes its next step
FairSpec == Spec /\ WF_vars(Next)

-----------------------------------------------------------------------------
(* The encoder alone: Process at line 173, holding a record it has just    *)
(* read in full, for every width, height and pixel pattern of the bounds   *)

Pattern(seed, n) == [k \in 1..n |-> (10 * k + 37 * seed) % 256]

InitEnc ==
    \E w \in 1..MaxEncWidth, h \in 1..MaxEncHeight, seed \in 0..MaxSeed :
        /\ pc = "Save"
        /\ input = Rec(w, h, Pattern(seed, w * h * 3))
        /\ pos = Len(input)
        /\ eofbit = FALSE
        /\ failbit = FALSE
        /\ header_end = Len(Marker)
        /\ width = w
        /\ height = h
        /\ img_data = Pattern(seed, w * h * 3)
        /\ image_counter = 0
        /\ files = <<>>
        /\ extracted = <<>>
        /\ rejected = {}
        /\ exit_code = -1

NextEnc == Save

EncSpec == InitEnc /\ [][NextEnc]_vars

-----------------------------------------------------------------------------
(* Vocabulary of the properties: facts about the input stream and about an *)
(* output file, stated without the program's operators                     *)

\* the marker occupies offsets q .. q+5 of s (offsets count from 0)
MarkerAt(s, q) ==
    /\ q >= 0
    /\ q + 6 <= Len(s)
    /\ \A k \in 1..6 : s[q + k] = Marker[k]

MarkerStarts(s) == {q \in 0..(Len(s) - 6) : MarkerAt(s, q)}

NoMarker(s) == MarkerStarts(s) = {}

\* the signed 32-bit little-endian integer at offsets q .. q+3 of s
FieldAt(s, q) ==
    LET u == s[q + 1] + 256 * s[q + 2] + 65536 * s[q + 3]
        top == s[q + 4]
    IN  IF top < 128 THEN u + 16777216 * top ELSE u + 16777216 * (top - 256)

WidthAt(s, q) == FieldAt(s, q + 7)

HeightAt(s, q) == FieldAt(s, q + 11)

ValidDims(w, h) == 0 < w /\ w <= 2000 /\ 0 < h /\ h <= 2000

\* a well-formed record starts at offset q of s
WellFormedAt(s, q) ==
    /\ MarkerAt(s, q)
    /\ q + 15 <= Len(s)
    /\ ValidDims(WidthAt(s, q), HeightAt(s, q))
    /\ q + 15 + WidthAt(s, q) * HeightAt(s, q) * 3 <= Len(s)

WellFormedRecords(s) == {q \in MarkerStarts(s) : WellFormedAt(s, q)}

\* offset of the first byte after the pixel payload of the record at q
RecordEnd(s, q) == q + 15 + WidthAt(s, q) * HeightAt(s, q) * 3

RowPad(w) == (4 - ((w * 3) % 4)) % 4

\* the pixel bytes a bitmap file holds, top row first, channel 0 first
Unpacked(file, w, h) ==
    [k \in 1..(w * h * 3) |->
        LET r == (k - 1) \div (w * 3)
            j == ((k - 1) % (w * 3)) \div 3
            c == (k - 1) % 3
        IN  file[54 + (h - 1 - r) * (w * 3 + RowPad(w)) + j * 3 + (2 - c) + 1]]

\* file is a bitmap of the w x h pixel bytes at offset off of s
RoundTrip(file, s, off, w, h) ==
    /\ Len(file) = 54 + (w * 3 + RowPad(w)) * h
    /\ Unpacked(file, w, h) = SubSeq(s, off + 1, off + w * h * 3)

\* every output file of the run could be opened
AllOpened == DOMAIN files = 1..image_counter

\* the record at q was extracted: it reached line 173
ExtractedAt(q) == \E i \in DOMAIN extracted : extracted[i].off = q + 15

\* scanning that resumes at offset r finds and extracts the well-formed
\* record that the first marker at or after r starts
StillFound(r) ==
    \A q \in WellFormedRecords(input) :
        (q >= r /\ \A m \in MarkerStarts(input) : ~(r <= m /\ m < q))
            => ExtractedAt(q)

Finished == pc \in {"Done", "Abort"}

-----------------------------------------------------------------------------
(* C1: round trip of a stream with exactly one well-formed record *)

\* the stream holds exactly one well-formed record
OneRecord == Cardinality(WellFormedRecords(input)) = 1

TheRecord == CHOOSE q \in WellFormedRecords(input) : TRUE

\* the run wrote exactly one file, and it is the bitmap of the record's pixels
OneFileOfTheRecord ==
    /\ DOMAIN files = {1}
    /\ RoundTrip(files[1], input, TheRecord + 15,
                 WidthAt(input, TheRecord), HeightAt(input, TheRecord))

\* C1 as stated: whenever the stream contains exactly one well-formed record
\* (and output files can be opened), the finished run has produced exactly
\* one output file, whose pixel region unpacks to the record's pixel bytes.
C1_AsStated ==
    (Finished /\ OneRecord /\ AllOpened) => OneFileOfTheRecord

\* every occurrence of the marker other than the record's own starts inside
\* the record's pixel payload
NoOtherMarker ==
    \A m \in MarkerStarts(input) :
        \/ m = TheRecord
        \/ (TheRecord + 15 <= m /\ m < RecordEnd(input, TheRecord))

\* C1 amended: when the stream contains exactly one well-formed record, every
\* other occurrence of the marker starts inside that record's pixel payload,
\* and the output file can be opened, the run ends normally having produced
\* exactly one output file, whose pixel region (rows reversed, padding
\* dropped, bytes 0 and 2 of each pixel swapped) equals the record's pixels.
C1_RoundTrip ==
    (pc \in {"Done", "Abort"} /\ OneRecord /\ NoOtherMarker /\ AllOpened)
        => (pc = "Done" /\ image_counter = 1 /\ OneFileOfTheRecord)

\* C1 witness: a finished run over a junk byte followed by one two-row
\* record, whose file was written
C1_Witness ==
    /\ pc = "Done"
    /\ OneRecord
    /\ NoOtherMarker
    /\ DOMAIN files = {1}
    /\ HeightAt(input, TheRecord) = 2
    /\ TheRecord > 0

-----------------------------------------------------------------------------
(* C2: only records with dimensions in 1..2000 are emitted *)

\* C2 as stated: every record for which an output file is emitted (and every
\* record the output counter counts) has 0 < width <= MaxWidth and
\* 0 < height <= MaxHeight; a record whose width or height is zero or
\* negative produces no file and does not advance the counter.
C2_OnlyValidDimsEmitted ==
    \A i \in DOMAIN extracted :
        /\ 0 < extracted[i].width /\ extracted[i].width <= MaxWidth
        /\ 0 < extracted[i].height /\ extracted[i].height <= MaxHeight

-----------------------------------------------------------------------------
(* C3: no malformed record is fatal *)

\* C3 as stated: whatever header bytes follow a marker, the run never ends
\* in an exception that Process does not catch.
C3_NeverAborts == pc # "Abort"

-----------------------------------------------------------------------------
(* C4: a record with a dimension above the maximum is skipped in place *)

\* the step of line 168 on a record with a dimension above the maximum
RejectStep ==
    /\ pc = "Check"
    /\ (width > 2000 \/ height > 2000)

-----------------------------------------------------------------------------
(* C5: the output counter *)

\* C5: the counter starts at 0, goes up by exactly one at each successful
\* extraction (line 173) and changes at no other step; so the i-th extracted
\* record in stream order is emitted under counter value i, and a file
\* written under i is the bitmap of that record.
C5_CounterSequence ==
    /\ [][IF pc = "Save"
          THEN image_counter' = image_counter + 1
          ELSE image_counter' = image_counter]_vars
    /\ [](/\ pc = "main" => image_counter = 0
          /\ image_counter = Len(extracted)
          /\ DOMAIN files \subseteq 1..image_counter
          /\ \A i, j \in DOMAIN extracted :
                i < j => extracted[i].off < extracted[j].off
          /\ \A i \in DOMAIN files :
                ValidDims(extracted[i].width, extracted[i].height) =>
                    /\ extracted[i].off - 15 \in WellFormedRecords(input)
                    /\ extracted[i].width = WidthAt(input, extracted[i].off - 15)
                    /\ extracted[i].height = HeightAt(input, extracted[i].off - 15)
                    /\ RoundTrip(files[i], input, extracted[i].off,
                                 extracted[i].width, extracted[i].height))

\* C5 witness: two consecutive valid records, emitted as files 1 and 2
C5_Witness ==
    /\ pc = "Done"
    /\ image_counter = 2
    /\ DOMAIN files = {1, 2}
    /\ WellFormedRecords(input) = {0, extracted[2].off - 15}
    /\ extracted[1].off = 15
    /\ extracted[2].off - 15 = RecordEnd(input, 0)

-----------------------------------------------------------------------------
(* C6: truncated records *)

\* number of input bytes not yet consumed
Remaining == Len(input) - pos

\* nothing is emitted or counted by the step
NothingEmitted ==
    /\ image_counter' = image_counter
    /\ files' = files
    /\ extracted' = extracted

\* C6: when the delimiter byte is missing, or fewer than 8 bytes of width and
\* height remain, or fewer than width*height*3 pixel bytes remain, the record
\* produces no file and does not advance the counter, the driver goes back
\* to the scanner with the stream consumed to its end, and the scanner then
\* ends the run normally in Done.
C6_TruncatedRecord ==
    [][/\ (pc = "Ignore" /\ Remaining < 1) =>
            (NothingEmitted /\ pc' = "ReadDimensions" /\ pos' = Len(input))
       /\ (pc = "ReadDimensions" /\ Remaining < 8) =>
            (NothingEmitted /\ pc' = "FindHeader" /\ pos' = Len(input))
       /\ (pc = "ReadPixels" /\ width * height * 3 >= 0
                             /\ Remaining < width * height * 3) =>
            (NothingEmitted /\ pc' = "FindHeader" /\ pos' = Len(input))
       /\ (pc = "FindHeader" /\ Remaining = 0) =>
            (NothingEmitted /\ pc' = "Done" /\ exit_code' = 0)]_vars

\* C6 witness: the run ended in Done after a pixel read that came up short
C6_Witness ==
    /\ pc = "Done"
    /\ failbit
    /\ ValidDims(width, height)
    /\ MarkerAt(input, header_end - 6)
    /\ Len(input) >= header_end + 9
    /\ Len(input) < header_end + 9 + width * height * 3
    /\ ~ExtractedAt(header_end - 6)

-----------------------------------------------------------------------------
(* C7: a stream without the marker *)

\* C7: on a stream with no occurrence of the marker, Process never leaves
\* the scanner, produces no output file and leaves the counter at 0, and it
\* terminates: it stops nowhere but in Done, and the one step it takes from
\* the scanner ends the run in Done with the stream consumed.
C7_NoMarkerNoOutput ==
    /\ [](NoMarker(input) =>
            /\ image_counter = 0
            /\ DOMAIN files = {}
            /\ pc \in {"main", "Usage", "Process", "NoInput", "FindHeader", "Done"}
            /\ pc = "Done" => (pos = Len(input) /\ exit_code = 0))
    /\ [][(NoMarker(input) /\ pc = "FindHeader") =>
            (pc' = "Done" /\ pos' = Len(input) /\ exit_code' = 0)]_vars

\* C7 witness: a finished run over a non-empty stream that holds most of a
\* marker but no whole one
C7_Witness ==
    /\ pc = "Done"
    /\ NoMarker(input)
    /\ Len(input) >= 5
    /\ \A k \in 1..5 : input[Len(input) - 5 + k] = Marker[k]

-----------------------------------------------------------------------------
(* C8: row padding and the file-size field *)

\* C8: for valid dimensions the encoder's row padding is
\* (4 - (width*3) % 4) % 4, lies in 0..3 and makes the row a multiple of 4
\* bytes, and the little-endian file-size field at bytes 2..5 of the file
\* equals the number of bytes written, 54 + (width*3 + padding) * height.
C8_PaddingAndFileSize ==
    \A i \in DOMAIN files :
        LET w == extracted[i].width
            h == extracted[i].height
        IN  ValidDims(w, h) =>
              /\ PaddingAmount(w) = RowPad(w)
              /\ 0 <= PaddingAmount(w) /\ PaddingAmount(w) < 4
              /\ (w * 3 + PaddingAmount(w)) % 4 = 0
              /\ FieldAt(files[i], 2) = Len(files[i])
              /\ Len(files[i]) = 54 + (w * 3 + RowPad(w)) * h

\* C8 witness: a written file of a 4 x 2 image (no padding, 78 bytes)
C8_Witness ==
    \E i \in DOMAIN files :
        /\ extracted[i].width = 4
        /\ extracted[i].height = 2
        /\ Len(files[i]) = 78

-----------------------------------------------------------------------------
(* C9: the rows the encoder emits *)

\* the pixel bytes of the i-th extracted record, as they stand in the input
SourcePixels(i) ==
    SubSeq(input, extracted[i].off + 1,
           extracted[i].off + extracted[i].width * extracted[i].height * 3)

\* C9: after the 54-byte header the file holds height rows; the k-th row is
\* source row height-1-k with the first and third byte of each pixel
\* exchanged, followed by (4 - (width*3) % 4) % 4 zero bytes, and nothing
\* follows the last row.
C9_RowsBottomUpSwapped ==
    \A i \in DOMAIN files :
        LET w == extracted[i].width
            h == extracted[i].height
            f == files[i]
            src == SourcePixels(i)
            stride == w * 3 + RowPad(w)
        IN  ValidDims(w, h) =>
              /\ Len(f) = 54 + stride * h
              /\ \A k \in 0..(h - 1) :
                    /\ \A j \in 0..(w - 1) :
                          LET o == 54 + k * stride + j * 3
                              s == (h - 1 - k) * w * 3 + j * 3
                          IN  /\ f[o + 1] = src[s + 3]
                              /\ f[o + 2] = src[s + 2]
                              /\ f[o + 3] = src[s + 1]
                    /\ \A z \in 1..RowPad(w) : f[54 + k * stride + w * 3 + z] = 0

\* C9 witness: the 2 x 1 buffer [10,20,30,40,50,60] written as a 62-byte file
\* whose pixel region is [30,20,10,60,50,40,0,0]
C9_Witness ==
    \E i \in DOMAIN files :
        /\ extracted[i].width = 2
        /\ extracted[i].height = 1
        /\ SourcePixels(i) = <<10, 20, 30, 40, 50, 60>>
        /\ Len(files[i]) = 62
        /\ SubSeq(files[i], 55, 62) = <<30, 20, 10, 60, 50, 40, 0, 0>>

-----------------------------------------------------------------------------
(* C10: an output file that cannot be opened *)

\* the output file of the i-th extracted record could not be opened
OpenFailed(i) == i \in 1..image_counter /\ i \notin DOMAIN files

\* C10: whether or not the output file can be opened, the step of lines
\* 173-174 counts the record, leaves the input stream as it is and returns to
\* the scanner; after a failed open the well-formed record that the next
\* marker starts is still found and extracted, and every file written after
\* a failed open is the bitmap of its own record.
C10_OpenFailureNotFatal ==
    /\ [][pc = "Save" =>
            /\ pc' = "FindHeader"
            /\ pos' = pos
            /\ eofbit' = eofbit
            /\ failbit' = failbit
            /\ image_counter' = image_counter + 1]_vars
    /\ [](\A i \in 1..image_counter :
            OpenFailed(i) =>
              /\ Finished =>
                    StillFound(extracted[i].off
                        + extracted[i].width * extracted[i].height * 3)
              /\ \A j \in DOMAIN files :
                    (j > i /\ ValidDims(extracted[j].width, extracted[j].height))
                        => RoundTrip(files[j], input, extracted[j].off,
                                     extracted[j].width, extracted[j].height))

\* C10 witness: the first record's file could not be opened, the second
\* record's file was written
C10_Witness ==
    /\ pc = "Done"
    /\ OpenFailed(1)
    /\ 2 \in DOMAIN files
    /\ ValidDims(extracted[2].width, extracted[2].height)
    /\ extracted[2].off - 15 = extracted[1].off
                                + extracted[1].width * extracted[1].height * 3

-----------------------------------------------------------------------------
(* C11: wrong argument count, unopenable input *)

\* nothing was read, counted or written
NothingProcessed ==
    /\ pos = 0
    /\ image_counter = 0
    /\ DOMAIN files = {}
    /\ extracted = <<>>

\* C11: with an argument count other than one file path the program exits
\* with code 1 before any processing and writes no file; with an input file
\* that cannot be opened it writes no file, leaves the counter at 0 and exits
\* with code 0.
C11_UsageAndNoInput ==
    /\ pc = "Usage" => (exit_code = 1 /\ NothingProcessed)
    /\ pc = "NoInput" => (exit_code = 0 /\ NothingProcessed)
    /\ exit_code = 1 => pc = "Usage"
    /\ pc \in {"main", "Process"} => (exit_code = -1 /\ NothingProcessed)

\* C11 witness: the run that could not open a non-empty input file
C11_Witness ==
    /\ pc = "NoInput"
    /\ exit_code = 0
    /\ WellFormedRecords(input) # {}

-----------------------------------------------------------------------------
(* C12: the size of the pixel buffer *)

\* C12 as stated: whenever the driver is about to allocate and read the
\* pixel buffer, the number of bytes it asks for, width*height*3, is
\* non-negative and at most MaxWidth*MaxHeight*3 = 12,000,000.
C12_AllocationBounded ==
    pc = "ReadPixels" =>
        /\ 0 <= width * height * 3
        /\ width * height * 3 <= 2000 * 2000 * 3

-----------------------------------------------------------------------------
(* C13: what FindHeader finds *)

\* the offsets at or after p at which an occurrence of the marker starts
MarkersFrom(p) == {m \in MarkerStarts(input) : m >= p}

FirstMarkerFrom(p) ==
    CHOOSE m \in MarkersFrom(p) : \A o \in MarkersFrom(p) : m <= o

\* C13: a call of FindHeader with the cursor at p reports a match exactly
\* when an occurrence of the marker starts at or after p; on a match the
\* cursor is right after the last byte of the first such occurrence, and on
\* failure the stream has been consumed to its end.
C13_FindsFirstMarker ==
    [][pc = "FindHeader" =>
          IF MarkersFrom(pos) # {}
          THEN /\ pc' = "Ignore"
               /\ pos' = FirstMarkerFrom(pos) + 6
               /\ header_end' = pos'
          ELSE /\ pc' = "Done"
               /\ pos' = Len(input)]_vars

\* C13 witness: a match found from a cursor that lies inside an occurrence
\* of the marker, which the call therefore passes over
C13_Witness ==
    /\ pc = "Ignore"
    /\ pos = header_end
    /\ \E i \in DOMAIN extracted :
          \E m \in MarkerStarts(input) :
              LET end == extracted[i].off
                            + extracted[i].width * extracted[i].height * 3
              IN  /\ m < end
                  /\ end < m + 6
                  /\ header_end - 6 > m

-----------------------------------------------------------------------------
(* C14: the driver terminates in Done *)

\* the control points at which the program has a next step to take
Running ==
    pc \in {"main", "Process", "FindHeader", "Ignore", "ReadDimensions",
            "Check", "ReadPixels", "Save"}

\* C14 as stated: the run over a finite stream goes on until it is in Done:
\* it never stops anywhere else (a run that never opened the input stops in
\* Usage or NoInput); and it is in Done only after a scanner call that failed
\* with the stream consumed to its end.
C14_ReachesDone ==
    /\ ~Running => pc \in {"Done", "Usage", "NoInput"}
    /\ pc = "Done" => (pos = Len(input) /\ failbit /\ exit_code = 0)

-----------------------------------------------------------------------------
(* C15: the cursor only moves forward *)

\* C15: no step of the run (scanner read, delimiter skip, header read, pixel
\* read, or any other) moves the input cursor backwards or past the end of
\* the stream, so no input byte is read twice.
C15_CursorMonotone ==
    [][pos <= pos' /\ pos' <= Len(input)]_vars

\* C15 witness: a finished run that scanned, skipped an oversized record and
\* read the header and the pixels of another
C15_Witness ==
    /\ pc = "Done"
    /\ rejected # {}
    /\ image_counter = 1
    /\ pos = Len(input)
    /\ pos > 30

-----------------------------------------------------------------------------
(* C16: ReadDimensions *)

\* C16: when 8 bytes remain, ReadDimensions consumes exactly 8 and returns
\* the width decoded from the first 4 and the height from the next 4, each
\* little-endian and signed (a top byte of 0x80 or more gives a negative
\* value); when fewer remain for either field it fails with an error (which
\* Process catches) and returns nothing.
C16_ReadDimensions ==
    [][pc = "ReadDimensions" =>
          IF Remaining >= 8
          THEN /\ pc' = "Check"
               /\ pos' = pos + 8
               /\ width' = FieldAt(input, pos)
               /\ height' = FieldAt(input, pos + 4)
               /\ (input[pos + 4] >= 128) = (width' < 0)
               /\ (input[pos + 8] >= 128) = (height' < 0)
          ELSE /\ pc' = "FindHeader"
               /\ pos' = Len(input)
               /\ failbit'
               /\ NothingEmitted]_vars

\* C16 witness: the header FF FF FF FF 01 00 00 00 read as width -1, height 1
C16_Witness ==
    /\ pc = "Check"
    /\ SubSeq(input, pos - 7, pos) = <<255, 255, 255, 255, 1, 0, 0, 0>>
    /\ width = -1
    /\ height = 1

-----------------------------------------------------------------------------
(* The run of Process as a function of the stream *)

RECURSIVE ProcessLoop(_, _, _, _, _, _, _)
\* the loop of lines 164-178 on stream s from cursor p, with every output
\* file opened: how the run ends, the final cursor, the final counter, the
\* files written and the offsets of the bytes line 165 skipped
ProcessLoop(s, p, eof, fail, counter, out, skipped) ==
    LET f == FindHeader(s, p, eof, fail)
        g == StreamIgnore(s, f.pos, f.eof, f.fail)
        d == ReadDimensions(s, g.pos, g.eof, g.fail)
        n == d.width * d.height * 3
        r == StreamRead(s, d.pos, d.eof, d.fail, n)
        sk == IF g.pos > f.pos THEN skipped \cup {f.pos} ELSE skipped
    IN  IF ~f.found
        THEN [end |-> "Done", pos |-> f.pos, counter |-> counter,
              files |-> out, skipped |-> skipped]
        ELSE IF ~d.ok
        THEN ProcessLoop(s, d.pos, d.eof, d.fail, counter, out, sk)
        ELSE IF DimensionsRejected(d.width, d.height)
        THEN ProcessLoop(s, ResumeAfterReject(d.pos, d.width, d.height),
                         d.eof, d.fail, counter, out, sk)
        ELSE IF AllocationThrows(n)
        THEN [end |-> "Abort", pos |-> d.pos, counter |-> counter,
              files |-> out, skipped |-> sk]
        ELSE IF ~PixelReadOk(r)
        THEN ProcessLoop(s, r.pos, r.eof, r.fail, counter, out, sk)
        ELSE ProcessLoop(s, r.pos, r.eof, r.fail, NextCounter(counter),
                         (NextCounter(counter) :> SaveAsBMP(r.data, d.width, d.height))
                             @@ out,
                         sk)

\* Process on an input file that opened, image_counter starting at 0
ProcessRun(s) == ProcessLoop(s, 0, FALSE, FALSE, 0, <<>>, {})

-----------------------------------------------------------------------------
(* C17: the byte after the marker *)

\* values tried for the skipped byte
OtherBytes == {0, 10, 73, 255}

\* stream s with the byte at offset d replaced by b
WithByte(s, d, b) == [s EXCEPT ![d + 1] = b]

\* C17: the driver skips exactly one byte between the marker and the width
\* field, and its value does not matter: the run over a stream that differs
\* from the input only in such a byte ends the same way, with the same final
\* cursor, the same counter and the same files.
C17_SkippedByteIgnored ==
    /\ (pc = "ReadDimensions" /\ ~eofbit) => pos = header_end + 1
    /\ (Finished /\ AllOpened) =>
          LET run == ProcessRun(input)
          IN  /\ run.end = pc
              /\ run.pos = pos
              /\ run.counter = image_counter
              /\ DOMAIN run.files = DOMAIN files
              /\ \A i \in DOMAIN files : run.files[i] = files[i]
              /\ \A d \in run.skipped :
                    /\ MarkerAt(input, d - 6)
                    /\ \A b \in OtherBytes :
                          ProcessRun(WithByte(input, d, b)) = run

\* C17 witness: a finished run that skipped the byte after each of two
\* markers and wrote both records
C17_Witness ==
    /\ pc = "Done"
    /\ DOMAIN files = {1, 2}
    /\ ProcessRun(input).skipped = {6, extracted[2].off - 9}

-----------------------------------------------------------------------------
(* C18: the 54 header bytes *)

\* C18: for valid dimensions the file starts with 'B' 'M', the file size as
\* 4 little-endian bytes, 4 zero bytes, the pixel-data offset 54 as 4
\* little-endian bytes, and the 40-byte info header: header size 40, width,
\* height (4 little-endian bytes each), plane count 1 and bits per pixel 24
\* (2 bytes each), and 24 zero bytes.
C18_HeaderBytes ==
    \A i \in DOMAIN files :
        LET w == extracted[i].width
            h == extracted[i].height
            f == files[i]
        IN  ValidDims(w, h) =>
              /\ Len(f) >= 54
              /\ f[1] = 66 /\ f[2] = 77
              /\ FieldAt(f, 2) = 54 + (w * 3 + RowPad(w)) * h
              /\ \A k \in 7..10 : f[k] = 0
              /\ FieldAt(f, 10) = 54
              /\ FieldAt(f, 14) = 40
              /\ FieldAt(f, 18) = w
              /\ FieldAt(f, 22) = h
              /\ f[27] = 1 /\ f[28] = 0
              /\ f[29] = 24 /\ f[30] = 0
              /\ \A k \in 31..54 : f[k] = 0

\* C18 witness: the header of the file of a 3 x 2 image (78 bytes)
C18_Witness ==
    \E i \in DOMAIN files :
        /\ extracted[i].width = 3
        /\ extracted[i].height = 2
        /\ SubSeq(files[i], 1, 30) =
              <<66, 77, 78, 0, 0, 0, 0, 0, 0, 0, 54, 0, 0, 0,
                40, 0, 0, 0, 3, 0, 0, 0, 2, 0, 0, 0, 1, 0, 24, 0>>

-----------------------------------------------------------------------------
(* C19: the payload of an extracted record is never searched *)

\* the pixel payload of extracted record i: offsets lo .. hi - 1
PayloadOf(i) ==
    [lo |-> extracted[i].off,
     hi |-> extracted[i].off + extracted[i].width * extracted[i].height * 3]

\* the marker occurrence starting at m lies wholly inside payload i, or
\* straddles its end
InOrAcrossPayload(m, i) == PayloadOf(i).lo <= m /\ m < PayloadOf(i).hi

\* C19: the step that extracts a record leaves the cursor at marker_end + 1 +
\* 8 + width*height*3 on a good stream and goes back to the scanner; the
\* marker a scanner call finds lies wholly at or after the offset the call
\* started at (its window starts empty), hence at or after the end of every
\* extracted payload, so no marker inside a payload or across its end
\* starts a record.
C19_PayloadNotSearched ==
    [][ /\ pc = "Save" =>
              /\ pc' = "FindHeader"
              /\ pos' = header_end + 1 + 8 + width * height * 3
              /\ ~eofbit' /\ ~failbit'
        /\ (pc = "FindHeader" /\ pc' = "Ignore") =>
              /\ header_end' - Len(Marker) >= pos
              /\ \A i \in DOMAIN extracted :
                    /\ header_end' - Len(Marker) >= PayloadOf(i).hi
                    /\ ~InOrAcrossPayload(header_end' - Len(Marker), i)
      ]_vars

\* C19 witness: a finished run whose stream holds a well-formed record that
\* starts in the last bytes of an extracted payload and runs across its end;
\* it was not extracted, and the scan went on behind the payload to the end
C19_Witness ==
    /\ pc = "Done"
    /\ pos = Len(input)
    /\ DOMAIN files = {1}
    /\ \E m \in WellFormedRecords(input) :
          /\ InOrAcrossPayload(m, 1)
          /\ m + Len(Marker) > PayloadOf(1).hi
          /\ ~ExtractedAt(m)

-----------------------------------------------------------------------------
(* C20: nothing is produced after a read that came up short *)

\* the step is a read on a good stream that meets the end of the stream
\* before its required length: the delimiter skip, the 8 bytes of width and
\* height, or the pixel payload
ShortRead ==
    /\ ~eofbit /\ ~failbit
    /\ \/ pc = "Ignore" /\ Remaining < 1
       \/ pc = "ReadDimensions" /\ Remaining < 2 * DimBytes
       \/ /\ pc = "ReadPixels"
          /\ ~AllocationThrows(width * height * 3)
          /\ Remaining < width * height * 3

\* C20: a read that comes up short sets eofbit; from then on eofbit stays
\* set, no step produces a file or changes the counter or moves the cursor,
\* the driver only goes back to the scanner, and the scanner call fails
\* without matching anything and ends the run in Done with exit code 0.
C20_NoOutputAfterShortRead ==
    [][ /\ ShortRead => (eofbit' /\ NothingEmitted /\ pc' # "Save")
        /\ eofbit =>
              /\ eofbit'
              /\ NothingEmitted
              /\ pos' = pos
              /\ pc' \in {"ReadDimensions", "FindHeader", "Done"}
              /\ pc = "ReadDimensions" => pc' = "FindHeader"
              /\ pc = "FindHeader" =>
                    /\ pc' = "Done"
                    /\ failbit'
                    /\ header_end' = header_end
                    /\ exit_code' = 0
      ]_vars

\* C20 witness: the run ended in Done with one file written, after a later
\* marker whose record was cut off by the end of the stream
C20_Witness ==
    /\ pc = "Done"
    /\ eofbit
    /\ image_counter = 1
    /\ DOMAIN files = {1}
    /\ header_end - Len(Marker) >= extracted[1].off
          + extracted[1].width * extracted[1].height * 3
    /\ MarkerAt(input, header_end - Len(Marker))
    /\ ~ExtractedAt(header_end - Len(Marker))

====
